---- MODULE Spec2Model ----
(***************************************************************************)
(* Model of the OpenWeather extract/load pipeline:                         *)
(*   tools/get_lat_long.py            GetLatLong.get_lat_long              *)
(*   extract/extract_current_weather  ExtractDataCurrentWeather            *)
(*   load/load_current_weather.py     LoadCurrentWeather                   *)
(*   main.py                          WeatherApp.start / _extract_and_load *)
(* The CSV file, the HTTP provider and the database are the environment:   *)
(* their answers are drawn nondeterministically from small sets.           *)
(***************************************************************************)
EXTENDS Integers, Sequences, FiniteSets, TLC

\* ------------------------------------------------------------------ bounds
MaxCities == 2
MaxRows == 2
MaxBatch == 2
MaxTableRows == 3

\* ------------------------------------------------------------- small helpers
\* Python's None and a list are kept apart by a tag: Some(l) is the list l.
None == [isNone |-> TRUE, list |-> <<>>]

Some(l) == [isNone |-> FALSE, list |-> l]

SeqsUpTo(S, n) == UNION {[1..k -> S] : k \in 0..n}

Range(s) == {s[k] : k \in 1..Len(s)}

\* s is an order-preserving subsequence of t: some strictly increasing choice of
\* positions of t spells s
IsSubsequence(s, t) ==
    \E pos \in [1..Len(s) -> 1..Len(t)] :
        /\ \A a \in 1..Len(s) : \A b \in 1..Len(s) : a < b => pos[a] < pos[b]
        /\ \A a \in 1..Len(s) : s[a] = t[pos[a]]

\* ------------------------------------------------- coordinate source (CSV)
\* City names; two of them differ only in case.
Names == {"Xaxim", "xaxim", "Campinas"}

Lower(n) == IF n = "Xaxim" THEN "xaxim" ELSE n

Coordinates == {<<1, 3>>, <<2, 4>>}

CsvRows == {[nome |-> n, latitude |-> c[1], longitude |-> c[2]] : n \in Names, c \in Coordinates}

CsvHeaders ==
    { {"nome", "latitude", "longitude"}, {"nome", "longitude"},
      {"nome", "latitude"}, {"latitude", "longitude"} }

\* What os.path.exists / pd.read_csv find at file_path.
CsvFiles ==
    {[state |-> s, columns |-> {}, rows |-> <<>>] : s \in {"missing", "empty", "unparseable"}}
    \cup {[state |-> "ok", columns |-> h, rows |-> r] : h \in CsvHeaders, r \in SeqsUpTo(CsvRows, MaxRows)}

CityLists == {None} \cup {Some(l) : l \in SeqsUpTo(Names, MaxCities)}

\* An element of lat_long_list.  A looked-up city contributes the two-element
\* list [latitude, longitude]; the cities-is-None branch appends ONE element,
\* the list of all rows' [latitude, longitude] lists.
PairItem(lat, lon) == [shape |-> "pair", lat |-> lat, lon |-> lon, rows |-> <<>>]

RowsItem(rows) == [shape |-> "rows", lat |-> 0, lon |-> 0, rows |-> rows]

\* df[['latitude', 'longitude']].values.tolist()
ValuesToList(rows) == [k \in 1..Len(rows) |-> <<rows[k].latitude, rows[k].longitude>>]

\* df['nome'] == city, row by row
NameMatchesFolded(row, city) == Lower(row.nome) = Lower(city)

NameMatches(row, city) == row.nome = city

RowsNamed(rows, city) == SelectSeq(rows, LAMBDA r : NameMatches(r, city))

\* lat_long[0]
PickFirst(matches) == matches[1]

\* the for-loop over cities, from position k on, with the list built so far
RECURSIVE CityLoop(_, _, _, _, _)
CityLoop(csv, cities, k, acc, out) ==
    IF k > Len(cities) THEN [kind |-> "return", exc |-> "none", value |-> acc, printed |-> out]
    ELSE IF "nome" \notin csv.columns
         THEN \* df['nome'] raises KeyError; except Exception returns the list so far
              [kind |-> "return", exc |-> "none", value |-> acc,
               printed |-> Append(out, <<"error", "KeyError">>)]
    ELSE LET matches == ValuesToList(RowsNamed(csv.rows, cities[k]))
         IN  IF matches # <<>>
             THEN CityLoop(csv, cities, k + 1,
                           Append(acc, PairItem(PickFirst(matches)[1], PickFirst(matches)[2])), out)
             ELSE CityLoop(csv, cities, k + 1, acc, Append(out, <<"not_found", cities[k]>>))

\* raise ValueError(...) stands inside the try: `except Exception` catches it,
\* prints it and returns the (still empty) list
SchemaError(out) ==
    [kind |-> "return", exc |-> "none", value |-> <<>>,
     printed |-> Append(out, <<"error", "ValueError">>)]

get_lat_long(csv, cities) ==
    IF csv.state = "missing"
    THEN [kind |-> "raise", exc |-> "FileNotFoundError", value |-> <<>>, printed |-> <<>>]
    ELSE IF csv.state = "empty"
    THEN [kind |-> "return", exc |-> "none", value |-> <<>>, printed |-> <<<<"error", "EmptyDataError">>>>]
    ELSE IF csv.state = "unparseable"
    THEN [kind |-> "return", exc |-> "none", value |-> <<>>, printed |-> <<<<"error", "ParserError">>>>]
    ELSE IF "latitude" \notin csv.columns \/ "longitude" \notin csv.columns
    THEN SchemaError(<<>>)
    ELSE IF cities = None
    THEN [kind |-> "return", exc |-> "none",
          value |-> <<RowsItem(ValuesToList(csv.rows))>>, printed |-> <<>>]
    ELSE CityLoop(csv, cities.list, 1, <<>>, <<>>)

\* -------------------------------------------------------- provider answers
\* The JSON body of a 2xx answer: an object, given by the paths of its leaves,
\* or a JSON value that is no object (json_normalize cannot take it).
BodyShapes ==
    { [object |-> TRUE, paths |-> {}],
      [object |-> TRUE, paths |-> {<<"id">>}],
      [object |-> TRUE, paths |-> {<<"id">>, <<"rain", "1h">>}],
      [object |-> TRUE, paths |-> {<<"id">>, <<"Gust">>}],
      [object |-> FALSE, paths |-> {}] }

\* json_normalize(..., sep='_'): a nested key becomes the joined path
FlatName(path) == IF Len(path) = 1 THEN path[1] ELSE path[1] \o "_" \o path[2]

\* time.sleep(request_interval)
request_interval == 1

\* ------------------------------------------------------------------- state
VARIABLES
    pc,              \* where the run is
    csv,             \* the file get_lat_long was given (while the call is observed)
    cities,          \* its cities argument
    resolved,        \* what get_lat_long did: return value or exception
    stdout,          \* print() output of the run
    lat_long_list,   \* ExtractDataCurrentWeather.lat_long_list
    idx,             \* position of the for-loop in lat_long_list
    all_weathers,    \* extract_data's result list
    responses,       \* what the provider did to each GET, in order
    net,             \* HTTP GET attempts and sleeps, in order
    extracted,       \* what extract_data did: return value or exception
    log,             \* logger output of the run, in order
    raw_data,        \* LoadCurrentWeather.raw_data
    df,              \* the DataFrame of load_data
    engine,          \* sa.create_engine's engine: none, created, disposed
    disposeCalls,    \* calls of engine.dispose()
    connection,      \* the connection of engine.begin(): none, open, closed
    tx,              \* the table as the open transaction sees it
    missing_columns, \* _create_new_columns: set(df.columns) - existing_columns
    pending,         \* the part of missing_columns the for-loop has not reached
    sql,             \* statements sent to the database by this load_data call
    exc,             \* the exception load_data's try statement has in flight
    loaded,          \* what load_data did: return or exception
    db               \* the committed destination table

extractVars == <<lat_long_list, idx, all_weathers, responses, extracted>>

loadVars == <<raw_data, df, engine, disposeCalls, connection, tx, missing_columns,
              pending, sql, exc, loaded, db>>

vars == <<pc, csv, cities, resolved, stdout, net, log, extractVars, loadVars>>

NoCsv == [state |-> "none", columns |-> {}, rows |-> <<>>]

NoResolve == [kind |-> "none", exc |-> "none", value |-> <<>>, printed |-> <<>>]

NoCall == [kind |-> "none", exc |-> "none", value |-> None]

Returned(v) == [kind |-> "return", exc |-> "none", value |-> v]

Raised(e) == [kind |-> "raise", exc |-> e, value |-> None]

Logged(entries) == log' = log \o entries

\* ------------------------------------------------------- WeatherApp (main.py)
\* start(): some environment variable is unset: error logged, nothing else runs
StartEnvMissing ==
    /\ pc = "idle"
    /\ Logged(<<<<"error", "env_not_set">>>>)
    /\ pc' = "done"
    /\ UNCHANGED <<csv, cities, resolved, stdout, net, extractVars, loadVars>>

Start ==
    /\ pc = "idle"
    /\ Logged(<<<<"info", "starting_update">>>>)
    /\ pc' = "resolve"
    /\ UNCHANGED <<csv, cities, resolved, stdout, net, extractVars, loadVars>>

\* _extract_and_load: LatLong(self.file_path).get_lat_long(self.cities)
Resolve ==
    /\ pc = "resolve"
    /\ \E f \in CsvFiles : \E c \in CityLists :
        /\ csv' = f
        /\ cities' = c
        /\ resolved' = get_lat_long(f, c)
        /\ stdout' = stdout \o get_lat_long(f, c).printed
    /\ pc' = "resolved"
    /\ UNCHANGED <<net, log, extractVars, loadVars>>

\* get_lat_long is called outside _extract_and_load's try: its exception reaches
\* start(), whose inner handler logs and re-raises and whose outer handler logs
ResolveRaised ==
    /\ pc = "resolved"
    /\ resolved.kind = "raise"
    /\ Logged(<<<<"exception", "update_inner">>, <<"exception", "update">>>>)
    /\ pc' = "done"
    /\ csv' = NoCsv
    /\ cities' = None
    /\ UNCHANGED <<resolved, stdout, net, extractVars, loadVars>>

\* ExtractDataCurrentWeather(lat_long_list=...).extract_data() is entered
ExtractCall ==
    /\ pc = "resolved"
    /\ resolved.kind = "return"
    /\ lat_long_list' = resolved.value
    /\ idx' = 1
    /\ all_weathers' = <<>>
    /\ pc' = "extract"
    /\ csv' = NoCsv
    /\ cities' = None
    /\ resolved' = NoResolve
    /\ UNCHANGED <<stdout, net, log, responses, extracted, loadVars>>

\* ---------------------------------------------------------- extract_data
\* if not self.lat_long_list: warn, return None
ExtractNoCoordinates ==
    /\ pc = "extract"
    /\ lat_long_list = <<>>
    /\ Logged(<<<<"warning", "no_lat_long">>>>)
    /\ extracted' = Returned(None)
    /\ pc' = "extracted"
    /\ UNCHANGED <<csv, cities, resolved, stdout, net, lat_long_list, idx,
                   all_weathers, responses, loadVars>>

\* len() of the element that `lat, long = lat_long` unpacks
UnpackLen(item) == IF item.shape = "pair" THEN 2 ELSE Len(item.rows)

InLoop ==
    /\ pc = "extract"
    /\ lat_long_list # <<>>
    /\ idx <= Len(lat_long_list)

\* `lat, long = lat_long` stands before the try: a ValueError leaves extract_data
ExtractUnpackError ==
    /\ InLoop
    /\ UnpackLen(lat_long_list[idx]) # 2
    /\ extracted' = Raised("ValueError")
    /\ pc' = "extracted"
    /\ UNCHANGED <<csv, cities, resolved, stdout, net, log, lat_long_list, idx,
                   all_weathers, responses, loadVars>>

Attempt == InLoop /\ UnpackLen(lat_long_list[idx]) = 2

\* time.sleep is the last statement of the try block: reached only when
\* get, raise_for_status and json all succeeded
SleepAfterSuccess(events) == Append(events, <<"sleep", request_interval>>)

SleepAfterFailure(events) == events

AppendFront(list, data) == <<data>> \o list

\* all_weathers.append(data)
AppendData(list, data) == Append(list, data)

\* the except clauses leave all_weathers alone
SkipOnFailure(list, k) == list

BreakAfterFailure(k, list) == Len(list) + 1

\* after an except clause the for-loop goes on with the next element
ContinueAfterFailure(k, list) == k + 1

\* 2xx answer with a parsed body
RequestOk ==
    /\ Attempt
    /\ \E b \in BodyShapes :
        LET data == [of |-> idx, object |-> b.object, paths |-> b.paths]
        IN  /\ responses' = Append(responses, [of |-> idx, status |-> "ok", body |-> <<data>>])
            /\ all_weathers' = AppendData(all_weathers, data)
    /\ net' = SleepAfterSuccess(Append(net, <<"get", idx>>))
    /\ Logged(<<<<"info", "requesting">>>>)
    /\ idx' = idx + 1
    /\ UNCHANGED <<pc, csv, cities, resolved, stdout, lat_long_list, extracted, loadVars>>

\* one handled failure of the try block: which except clause logs it
RequestFailed(status, what) ==
    /\ Attempt
    /\ responses' = Append(responses, [of |-> idx, status |-> status, body |-> <<>>])
    /\ all_weathers' = SkipOnFailure(all_weathers, idx)
    /\ net' = SleepAfterFailure(Append(net, <<"get", idx>>))
    /\ Logged(<<<<"error", what>>>>)
    /\ idx' = ContinueAfterFailure(idx, lat_long_list)
    /\ UNCHANGED <<pc, csv, cities, resolved, stdout, lat_long_list, extracted, loadVars>>

\* raise_for_status() raises HTTPError
RequestHttpError == RequestFailed("http_error", "HTTPError")

\* requests.get raises a RequestException (connection, timeout, ...)
RequestTransportError == RequestFailed("transport", "RequestException")

\* anything else in the try block, e.g. a body json() cannot parse
RequestOtherError == RequestFailed("other", "Exception")

ExtractReturn ==
    /\ pc = "extract"
    /\ lat_long_list # <<>>
    /\ idx > Len(lat_long_list)
    /\ extracted' = Returned(Some(all_weathers))
    /\ pc' = "extracted"
    /\ UNCHANGED <<csv, cities, resolved, stdout, net, log, lat_long_list, idx,
                   all_weathers, responses, loadVars>>

\* ------------------------------------------------------------- load_data
NoTable == [exists |-> FALSE, cols |-> {}, rows |-> <<>>]

NoFrame == [rows |-> <<>>, columns |-> {}]

\* pd.json_normalize takes a list of objects; None (NotImplementedError) or an
\* element that is no object (AttributeError) makes it raise
Flattenable(raw) == ~raw.isNone /\ \A k \in 1..Len(raw.list) : raw.list[k].object

\* _extract_data: one row per observation, its columns the joined key paths;
\* the frame's columns are the union over the rows
json_normalize(list) ==
    [rows |-> [k \in 1..Len(list) |-> {FlatName(p) : p \in list[k].paths}],
     columns |-> UNION {{FlatName(p) : p \in list[k].paths} : k \in 1..Len(list)}]

\* DataFrame.empty: no rows or no columns
IsEmptyFrame(frame) == Len(frame.rows) = 0 \/ frame.columns = {}

SkipExtractDate(frame) == frame

\* _add_extract_date: df['extract_date'] = <now>, on every row
add_extract_date(frame) ==
    [rows |-> [k \in 1..Len(frame.rows) |-> frame.rows[k] \cup {"extract_date"}],
     columns |-> frame.columns \cup {"extract_date"}]

\* ALTER TABLE ... ADD COLUMN {column} TEXT interpolates the name unquoted:
\* PostgreSQL folds an unquoted identifier to lower case
Fold(column) == IF column = "Gust" THEN "gust" ELSE column

\* Tables an earlier load can have left behind
InitialTables ==
    {NoTable} \cup
    {[exists |-> TRUE, cols |-> c, rows |-> <<c>>] :
        c \in { {"id", "extract_date"}, {"id", "rain_1h", "extract_date"},
                {"id", "Gust", "extract_date"} }}

\* load_data is entered from _extract_and_load with extract_data's result
LoadCall ==
    /\ pc = "extracted"
    /\ extracted.kind = "return"
    /\ raw_data' = extracted.value
    /\ pc' = "load"
    /\ lat_long_list' = <<>>
    /\ idx' = 1
    /\ all_weathers' = <<>>
    /\ responses' = <<>>
    /\ extracted' = NoCall
    /\ UNCHANGED <<csv, cities, resolved, stdout, net, log, df, engine, disposeCalls,
                   connection, tx, missing_columns, pending, sql, exc, loaded, db>>

LoadLeaves(result, entries) ==
    /\ loaded' = result
    /\ Logged(entries)
    /\ pc' = "loaded"
    /\ UNCHANGED <<csv, cities, resolved, stdout, net, extractVars, raw_data, df, engine,
                   disposeCalls, connection, tx, missing_columns, pending, sql, exc, db>>

\* df = self._extract_data() stands before the try: its exception leaves load_data
LoadFlattenRaises ==
    /\ pc = "load"
    /\ ~Flattenable(raw_data)
    /\ LoadLeaves(Raised("flatten"), <<>>)

EmptyCreatesEngine(frame) == FALSE

\* if df.empty: warn and return, before create_engine
ReturnsOnEmpty(frame) == IsEmptyFrame(frame)

LoadEmpty ==
    /\ pc = "load"
    /\ Flattenable(raw_data)
    /\ ReturnsOnEmpty(json_normalize(raw_data.list))
    /\ LoadLeaves(Returned(None), <<<<"info", "extracted_records">>, <<"warning", "no_data">>>>)

HasData ==
    /\ pc = "load"
    /\ Flattenable(raw_data)
    /\ ~ReturnsOnEmpty(json_normalize(raw_data.list))

\* _add_extract_date raises (e.g. no time zone data): also before the try
LoadTimestampRaises ==
    /\ HasData
    /\ LoadLeaves(Raised("extract_date"), <<<<"info", "extracted_records">>>>)

\* sa.create_engine raises (e.g. malformed connection string, missing driver)
LoadCreateEngineRaises ==
    /\ HasData
    /\ LoadLeaves(Raised("create_engine"), <<<<"info", "extracted_records">>>>)

LoadCreateEngine ==
    /\ HasData
    /\ df' = add_extract_date(json_normalize(raw_data.list))
    /\ engine' = "created"
    /\ Logged(<<<<"info", "extracted_records">>, <<"info", "starting_load">>>>)
    /\ pc' = "begin"
    /\ UNCHANGED <<csv, cities, resolved, stdout, net, extractVars, raw_data, disposeCalls,
                   connection, tx, missing_columns, pending, sql, exc, loaded, db>>

Rethrow(e) == e

\* `except Exception as exc: logger.error(...)`: the exception ends there
Handle(e) == "none"

FinallySkipped == "loaded"

\* the finally clause runs after the except clause
AfterExcept == "finally"

AbortKeepsDdl(e, entries, statements) ==
    /\ connection' = IF connection = "open" THEN "closed" ELSE connection
    /\ db' = IF connection = "open" /\ tx.exists THEN [db EXCEPT !.cols = tx.cols] ELSE db
    /\ tx' = NoTable
    /\ sql' = sql \o statements
    /\ Logged(entries \o <<<<"error", "error_loading">>>>)
    /\ exc' = Handle(e)
    /\ pc' = AfterExcept
    /\ UNCHANGED <<csv, cities, resolved, stdout, net, extractVars, raw_data, df, engine,
                   disposeCalls, missing_columns, pending, loaded>>

\* an exception inside `with engine.begin()`: the transaction is rolled back, the
\* connection released, and load_data's `except Exception` logs it
Abort(e, entries, statements) ==
    /\ connection' = IF connection = "open" THEN "closed" ELSE connection
    /\ tx' = NoTable
    /\ sql' = sql \o statements
    /\ Logged(entries \o <<<<"error", "error_loading">>>>)
    /\ exc' = Handle(e)
    /\ pc' = AfterExcept
    /\ UNCHANGED <<csv, cities, resolved, stdout, net, extractVars, raw_data, df, engine,
                   disposeCalls, missing_columns, pending, loaded, db>>

\* engine.begin() cannot connect
BeginFails ==
    /\ pc = "begin"
    /\ Abort("connect", <<>>, <<>>)

BeginOk ==
    /\ pc = "begin"
    /\ connection' = "open"
    /\ tx' = db
    /\ pc' = "inspect"
    /\ UNCHANGED <<csv, cities, resolved, stdout, net, log, extractVars, raw_data, df, engine,
                   disposeCalls, missing_columns, pending, sql, exc, loaded, db>>

\* ------------------------------------------------- _create_new_columns
AllColumns(frame, table) == frame.columns

\* missing_columns = set(df.columns) - existing_columns
MissingColumns(frame, table) == frame.columns \ table.cols

\* its `except Exception as e: logger.error(...); raise`, then load_data's handler
SyncFails(e, statements) == Abort(e, <<<<"error", "error_creating_columns">>>>, statements)

\* inspect(connection), has_table or get_columns raises
InspectFails ==
    /\ pc = "inspect"
    /\ SyncFails("inspect", <<>>)

SyncDone(entries) ==
    /\ Logged(entries)
    /\ pc' = "insert"
    /\ UNCHANGED <<csv, cities, resolved, stdout, net, extractVars, raw_data, df, engine,
                   disposeCalls, connection, tx, missing_columns, pending, sql, exc, loaded, db>>

\* has_table is false: nothing to do, to_sql will create the table
InspectNoTable ==
    /\ pc = "inspect"
    /\ ~tx.exists
    /\ SyncDone(<<>>)

\* if not missing_columns: return
InspectNoMissing ==
    /\ pc = "inspect"
    /\ tx.exists
    /\ MissingColumns(df, tx) = {}
    /\ SyncDone(<<<<"info", "no_new_columns">>>>)

InspectMissing ==
    /\ pc = "inspect"
    /\ tx.exists
    /\ MissingColumns(df, tx) # {}
    /\ missing_columns' = MissingColumns(df, tx)
    /\ pending' = MissingColumns(df, tx)
    /\ Logged(<<<<"info", "adding_columns">>>>)
    /\ pc' = "nested_begin"
    /\ UNCHANGED <<csv, cities, resolved, stdout, net, extractVars, raw_data, df, engine,
                   disposeCalls, connection, tx, sql, exc, loaded, db>>

\* `with connection.begin():` on the connection engine.begin() already put in a
\* transaction: SQLAlchemy 2 raises InvalidRequestError, older versions nest
NestedBeginFails ==
    /\ pc = "nested_begin"
    /\ SyncFails("begin", <<>>)

NestedBeginOk ==
    /\ pc = "nested_begin"
    /\ pc' = "alter"
    /\ UNCHANGED <<csv, cities, resolved, stdout, net, log, extractVars, loadVars>>

\* one turn of `for column in missing_columns` (a set: any order): the ALTER
\* TABLE ... ADD COLUMN is executed and adds the folded name
AlterOk ==
    /\ pc = "alter"
    /\ \E column \in pending :
        /\ Fold(column) \notin tx.cols
        /\ tx' = [tx EXCEPT !.cols = @ \cup {Fold(column)}]
        /\ sql' = Append(sql, <<"ADD COLUMN", column>>)
        /\ pending' = pending \ {column}
    /\ UNCHANGED <<pc, csv, cities, resolved, stdout, net, log, extractVars, raw_data, df,
                   engine, disposeCalls, connection, missing_columns, exc, loaded, db>>

\* the statement is sent and the database rejects it (always, when the folded
\* name is already a column)
AlterFails ==
    /\ pc = "alter"
    /\ \E column \in pending : SyncFails("ddl", <<<<"ADD COLUMN", column>>>>)

AlterDone ==
    /\ pc = "alter"
    /\ pending = {}
    /\ SyncDone(<<<<"info", "added_columns">>>>)

\* ------------------------------------------------ df.to_sql and the commit
InsertReplacing(table, frame) ==
    [exists |-> TRUE, cols |-> frame.columns, rows |-> frame.rows]

\* to_sql(if_exists='append'): creates the table with the frame's columns when
\* it does not exist, then inserts the frame's rows
InsertTable(table, frame) ==
    [exists |-> TRUE,
     cols |-> IF table.exists THEN table.cols ELSE frame.columns,
     rows |-> table.rows \o frame.rows]

\* the database takes the INSERT only if every column of the frame exists
Insertable(table, frame) == table.exists => frame.columns \subseteq table.cols

InsertStatements(table) ==
    IF table.exists THEN <<<<"INSERT", "">>>> ELSE <<<<"CREATE TABLE", "">>, <<"INSERT", "">>>>

\* to_sql succeeds and the `with engine.begin()` block commits
InsertCommitted ==
    /\ pc = "insert"
    /\ Insertable(tx, df)
    /\ db' = InsertTable(tx, df)
    /\ tx' = NoTable
    /\ sql' = sql \o InsertStatements(tx)
    /\ connection' = "closed"
    /\ Logged(<<<<"info", "records_loaded">>>>)
    /\ pc' = "finally"
    /\ UNCHANGED <<csv, cities, resolved, stdout, net, extractVars, raw_data, df, engine,
                   disposeCalls, missing_columns, pending, exc, loaded>>

\* to_sql raises (always, when a column of the frame is no column of the table)
InsertFails ==
    /\ pc = "insert"
    /\ Abort("insert", <<>>, <<<<"INSERT", "">>>>)

\* to_sql succeeded, the COMMIT fails
CommitFails ==
    /\ pc = "insert"
    /\ Insertable(tx, df)
    /\ Abort("commit", <<>>, InsertStatements(tx))

\* finally: engine.dispose()
DisposeLeaves(entries) ==
    /\ pc = "finally"
    /\ disposeCalls' = disposeCalls + 1
    /\ Logged(entries)
    /\ loaded' = IF exc = "none" THEN Returned(None) ELSE Raised(exc)
    /\ exc' = "none"
    /\ pc' = "loaded"
    /\ UNCHANGED <<csv, cities, resolved, stdout, net, extractVars, raw_data, df,
                   connection, tx, missing_columns, pending, sql, db>>

DisposeOk ==
    /\ engine' = "disposed"
    /\ DisposeLeaves(<<<<"info", "engine_disposed">>>>)

\* dispose() raises: `except Exception as dispose_e: logger.warning(...)`
DisposeFails ==
    /\ engine' = engine
    /\ DisposeLeaves(<<<<"warning", "dispose_failed">>>>)

\* ------------------------------------------- back in _extract_and_load / start
\* extract_data or load_data raised: `except Exception as e: logger.exception`;
\* start() then logs the update as completed
RunCaught ==
    /\ \/ pc = "extracted" /\ extracted.kind = "raise"
       \/ pc = "loaded" /\ loaded.kind = "raise"
    /\ Logged(<<<<"exception", "extract_and_load">>, <<"info", "update_completed">>>>)
    /\ pc' = "done"
    /\ UNCHANGED <<csv, cities, resolved, stdout, net, extractVars, loadVars>>

RunCompleted ==
    /\ pc = "loaded"
    /\ loaded.kind = "return"
    /\ Logged(<<<<"info", "extract_load_completed">>, <<"info", "update_completed">>>>)
    /\ pc' = "done"
    /\ UNCHANGED <<csv, cities, resolved, stdout, net, extractVars, loadVars>>

\* ------------------------------------------------------------ specification
Init ==
    /\ pc = "idle"
    /\ csv = NoCsv
    /\ cities = None
    /\ resolved = NoResolve
    /\ stdout = <<>>
    /\ lat_long_list = <<>>
    /\ idx = 1
    /\ all_weathers = <<>>
    /\ responses = <<>>
    /\ net = <<>>
    /\ extracted = NoCall
    /\ log = <<>>
    /\ raw_data = None
    /\ df = NoFrame
    /\ engine = "none"
    /\ disposeCalls = 0
    /\ connection = "none"
    /\ tx = NoTable
    /\ missing_columns = {}
    /\ pending = {}
    /\ sql = <<>>
    /\ exc = "none"
    /\ loaded = NoCall
    /\ db \in InitialTables

Next ==
    \/ StartEnvMissing \/ Start \/ Resolve \/ ResolveRaised \/ ExtractCall
    \/ ExtractNoCoordinates \/ ExtractUnpackError \/ RequestOk \/ RequestHttpError
    \/ RequestTransportError \/ RequestOtherError \/ ExtractReturn
    \/ LoadCall \/ LoadFlattenRaises \/ LoadEmpty \/ LoadTimestampRaises
    \/ LoadCreateEngineRaises \/ LoadCreateEngine \/ BeginFails \/ BeginOk
    \/ InspectFails \/ InspectNoTable \/ InspectNoMissing \/ InspectMissing
    \/ NestedBeginFails \/ NestedBeginOk \/ AlterOk \/ AlterFails \/ AlterDone
    \/ InsertCommitted \/ InsertFails \/ CommitFails \/ DisposeOk \/ DisposeFails
    \/ RunCaught \/ RunCompleted

Spec == Init /\ [][Next]_vars

\* ------------------------------------- repeated loads on one destination table
\* Batches a run can hand to LoadCurrentWeather: None, or the parsed bodies
LoadBatches ==
    {None} \cup
    {Some([k \in 1..Len(l) |-> [of |-> k, object |-> l[k].object, paths |-> l[k].paths]]) :
        l \in SeqsUpTo(BodyShapes, MaxBatch)}

\* a further run of the pipeline reaches LoadCurrentWeather(raw_data, ...).load_data()
\* on the same table; the run's logger output and the call's state start afresh
NewLoad ==
    /\ pc \in {"caller", "loaded"}
    /\ Len(db.rows) < MaxTableRows
    /\ raw_data' \in LoadBatches
    /\ df' = NoFrame
    /\ engine' = "none"
    /\ disposeCalls' = 0
    /\ connection' = "none"
    /\ tx' = NoTable
    /\ missing_columns' = {}
    /\ pending' = {}
    /\ sql' = <<>>
    /\ exc' = "none"
    /\ loaded' = NoCall
    /\ log' = <<>>
    /\ pc' = "load"
    /\ UNCHANGED <<csv, cities, resolved, stdout, net, extractVars, db>>

InitLoads ==
    /\ pc = "caller"
    /\ csv = NoCsv
    /\ cities = None
    /\ resolved = NoResolve
    /\ stdout = <<>>
    /\ lat_long_list = <<>>
    /\ idx = 1
    /\ all_weathers = <<>>
    /\ responses = <<>>
    /\ net = <<>>
    /\ extracted = NoCall
    /\ log = <<>>
    /\ raw_data = None
    /\ df = NoFrame
    /\ engine = "none"
    /\ disposeCalls = 0
    /\ connection = "none"
    /\ tx = NoTable
    /\ missing_columns = {}
    /\ pending = {}
    /\ sql = <<>>
    /\ exc = "none"
    /\ loaded = NoCall
    /\ db \in InitialTables

NextLoads ==
    \/ NewLoad
    \/ LoadFlattenRaises \/ LoadEmpty \/ LoadTimestampRaises
    \/ LoadCreateEngineRaises \/ LoadCreateEngine \/ BeginFails \/ BeginOk
    \/ InspectFails \/ InspectNoTable \/ InspectNoMissing \/ InspectMissing
    \/ NestedBeginFails \/ NestedBeginOk \/ AlterOk \/ AlterFails \/ AlterDone
    \/ InsertCommitted \/ InsertFails \/ CommitFails \/ DisposeOk \/ DisposeFails

SpecLoads == InitLoads /\ [][NextLoads]_vars

\* ================================================================= claims
\* ------------------------------------------------ vocabulary of the claims
\* extract_data has been given a non-empty sequence of coordinate pairs
CoordinateSequence ==
    /\ lat_long_list # <<>>
    /\ \A k \in 1..Len(lat_long_list) : lat_long_list[k].shape = "pair"

\* the indices of the GET attempts, in the order they were issued
Gets(events) ==
    LET g == SelectSeq(events, LAMBDA e : e[1] = "get")
    IN  [k \in 1..Len(g) |-> g[k][2]]

Sleeps(events) == SelectSeq(events, LAMBDA e : e[1] = "sleep")

\* the parsed bodies of the requests the provider answered with success
OkBodies ==
    LET ok == SelectSeq(responses, LAMBDA r : r.status = "ok")
    IN  [k \in 1..Len(ok) |-> ok[k].body[1]]

Failures == SelectSeq(responses, LAMBDA r : r.status # "ok")

ErrorEntries == SelectSeq(log, LAMBDA e : e[1] = "error")

Identity(n) == [k \in 1..n |-> k]

\* C1: for a non-empty sequence of coordinate pairs and any pattern of request
\* outcomes, extract_data returns (does not raise) a list that is exactly the
\* parsed bodies of the successful requests in input order: no longer than the
\* input, its origins an order-preserving subsequence of the input positions,
\* and empty when every request failed.
C1_ExtractReturnsSuccessfulBodies ==
    (pc = "extracted" /\ CoordinateSequence) =>
        /\ extracted.kind = "return"
        /\ ~extracted.value.isNone
        /\ LET out == extracted.value.list
           IN  /\ out = OkBodies
               /\ Len(out) <= Len(lat_long_list)
               /\ IsSubsequence([k \in 1..Len(out) |-> out[k].of], Identity(Len(lat_long_list)))
               /\ (Len(Failures) = Len(lat_long_list) => out = <<>>)

C1_Witness ==
    /\ pc = "extracted"
    /\ CoordinateSequence
    /\ Len(responses) = 2
    /\ responses[1].status = "http_error"
    /\ responses[2].status = "ok"
    /\ Len(extracted.value.list) = 1

\* C2: in extract_data every coordinate pair gets exactly one GET attempt, in
\* input order, whatever happened to the pairs before it: while the loop runs
\* the attempts made are those of positions 1..idx-1, each once; every handled
\* failure is logged; and the call ends only after the last pair, by returning.
C2_EveryPairAttemptedOnce ==
    (pc \in {"extract", "extracted"} /\ CoordinateSequence) =>
        /\ Gets(net) = Identity(idx - 1)
        /\ Len(ErrorEntries) = Len(Failures)
        /\ pc = "extracted" => (idx = Len(lat_long_list) + 1 /\ extracted.kind = "return")

C2_Witness ==
    /\ pc = "extracted"
    /\ CoordinateSequence
    /\ Len(responses) = 2
    /\ responses[1].status = "transport"
    /\ Gets(net) = <<1, 2>>

\* C3 (as claimed): every request attempt is followed by the 1-second sleep
\* before the next request, after a success and after a handled failure alike
\* and also after the last attempt: as many sleeps as attempts, and each GET
\* directly followed by a sleep.
C3_SleepAfterEveryAttempt ==
    /\ Len(Sleeps(net)) = Len(Gets(net))
    /\ \A k \in 1..Len(net) :
          net[k][1] = "get" => (k < Len(net) /\ net[k + 1] = <<"sleep", request_interval>>)

\* the columns of the ADD COLUMN statements sent so far, in order
AddedColumns ==
    LET a == SelectSeq(sql, LAMBDA st : st[1] = "ADD COLUMN")
    IN  [k \in 1..Len(a) |-> a[k][2]]

\* what the claim calls incoming_columns - existing_columns, for the table as
\* it is while the transaction is open (db is the table before the call)
ExpectedMissing == IF db.exists THEN df.columns \ db.cols ELSE {}

\* C4: _create_new_columns issues exactly |incoming - existing| ADD COLUMN
\* statements, one per missing column and none for an existing one: the set it
\* works through is incoming - existing; every statement sent names a column
\* of that set, none twice; and when it hands over to the insert it has sent
\* exactly one per missing column: none when all columns exist, none when the
\* table does not exist.
C4_OneAddColumnPerMissingColumn ==
    /\ Range(AddedColumns) \subseteq missing_columns
    /\ Cardinality(Range(AddedColumns)) = Len(AddedColumns)
    /\ pc \in {"nested_begin", "alter"} => (db.exists /\ missing_columns = ExpectedMissing)
    /\ pc = "insert" =>
          /\ Range(AddedColumns) = ExpectedMissing
          /\ Len(AddedColumns) = Cardinality(ExpectedMissing)

C4_Witness ==
    /\ pc = "insert"
    /\ db.exists
    /\ Cardinality(ExpectedMissing) = 2
    /\ Len(AddedColumns) = 2

\* the columns of the batch load_data was given: all flattened keys plus
\* extract_date
BatchColumns ==
    UNION {{FlatName(p) : p \in raw_data.list[k].paths} : k \in 1..Len(raw_data.list)}
        \cup {"extract_date"}

\* this load_data call committed its insert
Committed == \E k \in 1..Len(log) : log[k] = <<"info", "records_loaded">>

\* C5: after a load_data call that ends in a committed insert, every column of
\* the batch (flattened keys plus extract_date) is a column of the table,
\* whether the table had fewer columns, all of them, or did not exist.
C5_BatchColumnsExistAfterCommit ==
    Committed => (db.exists /\ BatchColumns \subseteq db.cols)

C5_Witness ==
    /\ pc = "loaded"
    /\ Committed
    /\ Len(AddedColumns) = 1
    /\ "rain_1h" \in db.cols

\* C6 (as claimed): every load_data call attempts disposal of the engine
\* exactly once, on every exit path, the empty-batch return and a failure in
\* flattening included.
C6_DisposedOnceOnEveryPath ==
    pc = "loaded" => disposeCalls = 1

\* C6 (amended): a load_data call that created its engine attempts disposal
\* exactly once, whether the load committed or failed in connect, schema-sync,
\* insert or commit; a call that leaves before create_engine (empty batch,
\* exception in flattening, timestamp or create_engine) has no engine and
\* attempts no disposal; a failing disposal is logged and not raised.
C6_DisposedOnceWhenEngineCreated ==
    /\ disposeCalls <= 1
    /\ pc \in {"loaded", "done"} =>
          /\ disposeCalls = (IF engine = "none" THEN 0 ELSE 1)
          /\ (\E k \in 1..Len(log) : log[k] = <<"warning", "dispose_failed">>)
                => (loaded.kind = "return" /\ engine = "created")

C6_Witness ==
    /\ pc = "loaded"
    /\ engine = "disposed"
    /\ disposeCalls = 1
    /\ \E k \in 1..Len(log) : log[k] = <<"error", "error_creating_columns">>

C8_EmptyBatchOpensNothing ==
    (raw_data = Some(<<>>) /\ pc \in {"load", "loaded", "done"}) =>
        /\ engine = "none" /\ connection = "none" /\ disposeCalls = 0
        /\ sql = <<>>
        /\ pc # "load" =>
              /\ loaded = Returned(None)
              /\ \E k \in 1..Len(log) : log[k] = <<"warning", "no_data">>

C8_Witness ==
    /\ pc = "loaded"
    /\ raw_data = Some(<<>>)
    /\ loaded.kind = "return"

\* the coordinate source is a readable table with all three columns
WellFormedCsv == csv.state = "ok" /\ csv.columns = {"nome", "latitude", "longitude"}

HasRow(name) == \E r \in 1..Len(csv.rows) : csv.rows[r].nome = name

\* the first row whose name column equals the name, exactly
FirstRow(name) ==
    csv.rows[CHOOSE r \in 1..Len(csv.rows) :
                /\ csv.rows[r].nome = name
                /\ \A q \in 1..(r - 1) : csv.rows[q].nome # name]

\* C9: for a non-empty list of requested names, get_lat_long returns, in
\* request order, one [latitude, longitude] pair for each requested name that
\* has an exactly equal (case-sensitive) value in the name column, taken from
\* the first matching row; a name with no row is skipped with one diagnostic
\* message and no exception, so the result may be shorter than the input.
C9_FoundNamesInRequestOrder ==
    (pc = "resolved" /\ WellFormedCsv /\ ~cities.isNone /\ cities.list # <<>>) =>
        LET found == SelectSeq(cities.list, HasRow)
            absent == SelectSeq(cities.list, LAMBDA n : ~HasRow(n))
            out == resolved.value
        IN  /\ resolved.kind = "return"
            /\ Len(out) = Len(found)
            /\ Len(out) <= Len(cities.list)
            /\ \A j \in 1..Len(found) :
                  out[j] = PairItem(FirstRow(found[j]).latitude, FirstRow(found[j]).longitude)
            /\ stdout = [j \in 1..Len(absent) |-> <<"not_found", absent[j]>>]

C9_Witness ==
    /\ pc = "resolved"
    /\ WellFormedCsv
    /\ cities = Some(<<"xaxim", "Xaxim">>)
    /\ Len(csv.rows) = 2
    /\ csv.rows[1].nome = "Xaxim" /\ csv.rows[2].nome = "Xaxim"
    /\ csv.rows[1] # csv.rows[2]
    /\ resolved.value = <<PairItem(csv.rows[1].latitude, csv.rows[1].longitude)>>
    /\ stdout = <<<<"not_found", "xaxim">>>>

\* C10 (as claimed): when the coordinate source lacks the latitude or the
\* longitude column, get_lat_long fails with a schema error that reaches its
\* caller instead of returning a coordinate list, and the run makes no network
\* request and touches no database.
C10_SchemaErrorReachesCaller ==
    /\ (pc = "resolved" /\ csv.state = "ok"
          /\ ~({"latitude", "longitude"} \subseteq csv.columns)) => resolved.kind = "raise"
    /\ (\E k \in 1..Len(stdout) : stdout[k] = <<"error", "ValueError">>) =>
          (net = <<>> /\ engine = "none" /\ connection = "none" /\ sql = <<>>)

\* the source table is readable and has both coordinate columns
HasCoordinateColumns == csv.state = "ok" /\ {"latitude", "longitude"} \subseteq csv.columns

\* C11 (as claimed): when cities is unset (None) or the empty list,
\* get_lat_long returns one coordinate pair per row of the source table, in row
\* order, as a flat sequence of [latitude, longitude] pairs of the shape the
\* per-city lookup returns, so that extract_data can unpack each element as
\* one pair.
C11_AllRowsAsFlatPairs ==
    (pc = "resolved" /\ HasCoordinateColumns /\ (cities = None \/ cities = Some(<<>>))) =>
        /\ resolved.kind = "return"
        /\ resolved.value =
              [k \in 1..Len(csv.rows) |-> PairItem(csv.rows[k].latitude, csv.rows[k].longitude)]
        /\ \A k \in 1..Len(resolved.value) : UnpackLen(resolved.value[k]) = 2

\* extract_data found its coordinate sequence empty (its warning is in the log)
EmptyCoordinates == \E k \in 1..Len(log) : log[k] = <<"warning", "no_lat_long">>

\* C13 (as claimed): with an empty coordinate sequence extract_data issues no
\* HTTP request and returns an absent result, and the pipeline treats it as
\* "no data to load": the load step returns normally, raises nothing, logs no
\* error path and opens no destination connection.
C13_EmptyCoordinatesIsNoData ==
    EmptyCoordinates =>
        /\ net = <<>>
        /\ pc = "extracted" => extracted = Returned(None)
        /\ engine = "none" /\ connection = "none" /\ sql = <<>>
        /\ pc = "loaded" => loaded.kind = "return"
        /\ \A k \in 1..Len(log) : log[k][1] \notin {"error", "exception"}

LastLogged(entries) == IF entries = <<>> THEN <<"none", "none">> ELSE entries[Len(entries)]

InsertSent(statements) == \E k \in 1..Len(statements) : statements[k][1] = "INSERT"

\* the try block of load_data ends in this step (the finally clause is next)
TransactionEnds == pc \in {"begin", "inspect", "nested_begin", "alter", "insert"} /\ pc' = "finally"

\* C12: schema synchronisation and the row append of one load_data call are
\* atomic.  The committed table changes in one step only, the commit after the
\* insert, and then it gains all the added columns and all the rows of the
\* batch together; a transaction that ends in any failure (inspection, DDL,
\* insert, commit) leaves the table's columns and rows exactly as they were; and
\* a failure during schema synchronisation ends the transaction with no INSERT
\* sent.
C12_SyncAndInsertAtomic ==
    [][ /\ db' # db =>
              /\ pc = "insert" /\ pc' = "finally"
              /\ LastLogged(log') = <<"info", "records_loaded">>
              /\ exc' = "none"
              /\ db'.exists
              /\ db'.rows = db.rows \o df.rows
              /\ db'.cols = IF db.exists
                            THEN db.cols \cup {Fold(c) : c \in missing_columns}
                            ELSE df.columns
              /\ df.columns \subseteq db'.cols
        /\ TransactionEnds =>
              \/ LastLogged(log') = <<"info", "records_loaded">> /\ db' # db
              \/ LastLogged(log') = <<"error", "error_loading">> /\ db' = db
        /\ (TransactionEnds /\ pc \in {"inspect", "nested_begin", "alter"}) =>
              (~InsertSent(sql') /\ db' = db)
      ]_vars

\* a load has failed in its insert after ADD COLUMN statements went through
C12_Witness ==
    /\ pc = "finally"
    /\ LastLogged(log) = <<"error", "error_loading">>
    /\ Len(AddedColumns) >= 1
    /\ InsertSent(sql)
    /\ db.exists
    /\ Len(db.rows) >= 2

\* C14: across any sequence of load_data calls on one table, succeeding or
\* failing, the table is append-only and its schema grows monotonically: no
\* step removes the table or a column, no step removes or changes an existing
\* row (the rows before a step are a prefix of the rows after it), and at all
\* times the column set contains the columns of every row committed so far,
\* hence of every committed batch.
C14_AppendOnlyMonotoneSchema ==
    /\ [](\A k \in 1..Len(db.rows) : db.rows[k] \subseteq db.cols)
    /\ [][ /\ db.exists => db'.exists
           /\ db.cols \subseteq db'.cols
           /\ Len(db.rows) <= Len(db'.rows)
           /\ SubSeq(db'.rows, 1, Len(db.rows)) = db.rows
         ]_vars

\* two committed loads with different column sets on a table that existed
C14_Witness ==
    /\ pc = "loaded"
    /\ Committed
    /\ Len(db.rows) = 3
    /\ db.rows[1] = {"id", "extract_date"}
    /\ db.rows[2] = {"id", "extract_date"}
    /\ db.rows[3] = {"id", "rain_1h", "extract_date"}
    /\ db.cols = {"id", "rain_1h", "extract_date"}
====
